---- MODULE Spec2Model ----
(***************************************************************************)
(* State-machine model of app.py (SEO article tool, Flask backend).        *)
(*                                                                         *)
(* A text (a Python str) is the sequence of its Unicode code points, so    *)
(* that every character a request can carry has a value: "a" is <<97>>,    *)
(* a vertical tab is <<11>>, a lone surrogate is <<55296>>.  Python's      *)
(* 0-based offsets are kept (raw[s:e] is SubSeq(raw, s + 1, e)).  A file   *)
(* holds bytes and is known to the file system by the bytes of its path.   *)
(***************************************************************************)
EXTENDS Integers, Sequences, FiniteSets, TLC

VARIABLES
    requests,   \* the bodies of the POST /api/save calls the client makes, in order
    handlers,   \* one save_article call per request taken up: its position and locals
    files,      \* the output directory: bytes of the path -> bytes of the file
    clock,      \* the wall clock, in ticks of 1/TicksPerSecond seconds
    rpc,        \* position of the streaming request: idle/created/streaming/done/failed/closed
    endpoint,   \* the streaming route that was called, with its call parameters
    upstream,   \* the text fragments stream.text_stream has yielded so far
    out,        \* the events the response has emitted so far
    calls       \* number of client.messages.stream calls opened

vars == <<requests, handlers, files, clock, rpc, endpoint, upstream, out, calls>>
saveVars == <<requests, handlers, files, clock>>
relayVars == <<rpc, endpoint, upstream, out, calls>>

----------------------------------------------------------------------------
(* Bounds of the model *)

MaxEdits == 1       \* deviations of a blob from the expected seven-marker layout
MaxTokens == 2      \* markers in a freely ordered blob
MaxKwParts == 2     \* pieces a primary keyword is assembled from
MaxSaves == 2       \* save requests in one behaviour
MaxClock == 3       \* last clock tick
MaxFragments == 3   \* fragments one upstream stream delivers
TicksPerSecond == 2 \* clock resolution of the model

----------------------------------------------------------------------------
(* Text literals: the code points of the ASCII characters of a literal *)

AsciiLow == " !\"#$%&'()*+,-./0123456789:;<=>?@ABCDEFGHIJKLMNOPQRSTUVWXYZ[\\]^_"
AsciiHigh == "abcdefghijklmnopqrstuvwxyz{|}~"

\* ord(c)
Ord(c) ==
    CASE c = "\t" -> 9
      [] c = "\n" -> 10
      [] c = "\f" -> 12
      [] c = "\r" -> 13
      [] \E i \in 1 .. Len(AsciiLow) : SubSeq(AsciiLow, i, i) = c ->
            31 + (CHOOSE i \in 1 .. Len(AsciiLow) : SubSeq(AsciiLow, i, i) = c)
      [] OTHER -> 96 + (CHOOSE i \in 1 .. Len(AsciiHigh) : SubSeq(AsciiHigh, i, i) = c)

\* the text a string literal of the source denotes
T(s) == [i \in 1 .. Len(s) |-> Ord(SubSeq(s, i, i))]

----------------------------------------------------------------------------
(* Python string primitives *)

NotFound == -1

\* the characters str.isspace() holds for, which str.strip() removes
Whitespace ==
    (9 .. 13) \cup (28 .. 32) \cup {133, 160, 5760} \cup (8192 .. 8202)
        \cup {8232, 8233, 8239, 8287, 12288}

\* the code points U+D800..U+DFFF, which UTF-8 cannot encode
Surrogates == 55296 .. 57343

\* the surrogates the file system encoding (utf-8, surrogateescape) turns back
\* into the bytes 0x80..0xFF
EscapedBytes == 56448 .. 56575

Min(a, b) == IF a < b THEN a ELSE b

\* str.index(sub, start): the lowest offset >= start where sub occurs, raising
\* ValueError (NotFound) when there is none
Index(s, sub, start) ==
    LET hits == {i \in start .. Len(s) - Len(sub) : \A j \in 1 .. Len(sub) : s[i + j] = sub[j]}
    IN  IF hits = {} THEN NotFound ELSE CHOOSE i \in hits : \A j \in hits : i <= j

RECURSIVE LStrip(_)
LStrip(s) ==
    IF s = << >> THEN << >>
    ELSE IF s[1] \in Whitespace THEN LStrip(SubSeq(s, 2, Len(s)))
    ELSE s

RECURSIVE RStrip(_)
RStrip(s) ==
    IF s = << >> THEN << >>
    ELSE IF s[Len(s)] \in Whitespace THEN RStrip(SubSeq(s, 1, Len(s) - 1))
    ELSE s

\* str.strip()
Strip(s) == RStrip(LStrip(s))

\* str.replace(old, new) for a one-character old and new
Replace(s, old, new) == [j \in 1 .. Len(s) |-> IF s[j] = old THEN new ELSE s[j]]

\* s[:n]
Prefix(s, n) == SubSeq(s, 1, Min(n, Len(s)))

\* s[a:b] for offsets 0 <= a and 0 <= b <= len(s): empty when b <= a
Slice(s, a, b) == IF b <= a THEN << >> ELSE SubSeq(s, a + 1, b)

\* request.json's data.get(key, default): data has the keys the client sent
Get(d, key, default) == IF key \in DOMAIN d THEN d[key] ELSE default

\* A dict whose keys come from a request is the sequence of its items, in
\* insertion order: <<key, value>> pairs with distinct keys.
RECURSIVE DictGet(_, _, _)
DictGet(d, key, default) ==
    IF d = << >> THEN default
    ELSE IF d[1][1] = key THEN d[1][2]
    ELSE DictGet(Tail(d), key, default)

Keys(d) == {d[j][1] : j \in 1 .. Len(d)}

\* d[key] = value: a key already present keeps its place and takes the value
DictSet(d, key, value) ==
    IF key \in Keys(d)
    THEN [j \in 1 .. Len(d) |-> IF d[j][1] = key THEN <<key, value>> ELSE d[j]]
    ELSE Append(d, <<key, value>>)

\* {**d, **more}
RECURSIVE Update(_, _)
Update(d, more) ==
    IF more = << >> THEN d
    ELSE Update(DictSet(d, more[1][1], more[1][2]), Tail(more))

\* zero-padded decimal, as strftime and isoformat print a field
Digit(n) == 48 + n

RECURSIVE Digits(_, _)
Digits(n, width) ==
    IF width = 0 THEN << >> ELSE Append(Digits(n \div 10, width - 1), Digit(n % 10))

\* str.encode("utf-8") of one character that is no surrogate
Utf8(c) ==
    IF c < 128 THEN <<c>>
    ELSE IF c < 2048 THEN <<192 + (c \div 64), 128 + (c % 64)>>
    ELSE IF c < 65536
         THEN <<224 + (c \div 4096), 128 + ((c \div 64) % 64), 128 + (c % 64)>>
    ELSE <<240 + (c \div 262144), 128 + ((c \div 4096) % 64),
           128 + ((c \div 64) % 64), 128 + (c % 64)>>

\* str.encode("utf-8") (the text is split in halves to keep the evaluation shallow)
RECURSIVE Encode(_)
Encode(s) ==
    IF Len(s) = 0 THEN << >>
    ELSE IF Len(s) = 1 THEN Utf8(s[1])
    ELSE LET h == Len(s) \div 2
         IN  Encode(SubSeq(s, 1, h)) \o Encode(SubSeq(s, h + 1, Len(s)))

\* the text can be encoded as UTF-8: it holds no surrogate
Encodable(s) == \A j \in 1 .. Len(s) : s[j] \notin Surrogates

\* os.fsencode of one character (UTF-8 with the surrogateescape handler): the
\* surrogates U+DC80 to U+DCFF stand for the bytes 128 to 255
FsByte(c) == IF c \in EscapedBytes THEN <<c - 56320>> ELSE Utf8(c)

\* os.fsencode(path): the bytes under which the file system knows the file
RECURSIVE FsEncode(_)
FsEncode(path) ==
    IF Len(path) = 0 THEN << >>
    ELSE IF Len(path) = 1 THEN FsByte(path[1])
    ELSE LET h == Len(path) \div 2
         IN  FsEncode(SubSeq(path, 1, h)) \o FsEncode(SubSeq(path, h + 1, Len(path)))

----------------------------------------------------------------------------
(* Section extraction (save_article.extract and the sections dict) *)

SectionNames == {"keywords", "title_tag", "meta_desc", "article_title", "article_copy", "faqs"}

\* the keys of the sections dict, in the order the dict literal lists them
SectionOrder == <<"keywords", "title_tag", "meta_desc", "article_title", "article_copy", "faqs">>

\* the blob layout OUTPUT_FORMAT asks the generator for
Canonical ==
    <<T("---KEYWORDS---"), T("---TITLETAG---"), T("---METADESC---"), T("---ARTICLETITLE---"),
      T("---ARTICLECOPY---"), T("---FAQS---"), T("---END---")>>

StartMarker ==
    [keywords |-> Canonical[1], title_tag |-> Canonical[2], meta_desc |-> Canonical[3],
     article_title |-> Canonical[4], article_copy |-> Canonical[5], faqs |-> Canonical[6]]

EndMarker ==
    [keywords |-> Canonical[2], title_tag |-> Canonical[3], meta_desc |-> Canonical[4],
     article_title |-> Canonical[5], article_copy |-> Canonical[6], faqs |-> Canonical[7]]

\* except ValueError: return ""
ExtractNoStrip(raw, start, end) ==
    LET i == Index(raw, start, 0) IN
    IF i = NotFound THEN << >>
    ELSE LET s == i + Len(start)
             e == Index(raw, end, s)
         IN  IF e = NotFound THEN << >> ELSE Slice(raw, s, e)

ExtractToEndOfBlob(raw, start, end) ==
    LET i == Index(raw, start, 0) IN
    IF i = NotFound THEN << >>
    ELSE LET s == i + Len(start)
             e == Index(raw, end, s)
         IN  Strip(Slice(raw, s, IF e = NotFound THEN Len(raw) ELSE e))

ExtractEndFromZero(raw, start, end) ==
    LET i == Index(raw, start, 0) IN
    IF i = NotFound THEN << >>
    ELSE LET s == i + Len(start)
             e == Index(raw, end, 0)
         IN  IF e = NotFound THEN << >> ELSE Strip(Slice(raw, s, e))

Extract(raw, start, end) ==
    LET i == Index(raw, start, 0) IN
    IF i = NotFound THEN << >>
    ELSE LET s == i + Len(start)
             e == Index(raw, end, s)
         IN  IF e = NotFound THEN << >> ELSE Strip(Slice(raw, s, e))

SectionsCopyUpToEnd(raw) ==
    [k \in SectionNames |->
        Extract(raw, StartMarker[k], IF k = "article_copy" THEN Canonical[7] ELSE EndMarker[k])]

Sections(raw) == [k \in SectionNames |-> Extract(raw, StartMarker[k], EndMarker[k])]

----------------------------------------------------------------------------
(* Export writer (save_article, after the sections dict) *)

KeywordLimit == 30

\* the clock reads 09:59:59 on 30 October 2026 when the model starts
StartSecond == (9 * 3600) + (59 * 60) + 59

SecondOf(t) == StartSecond + (t \div TicksPerSecond)
MicrosecondOf(t) == ((t % TicksPerSecond) * 1000000) \div TicksPerSecond

HH(t) == Digits((SecondOf(t) \div 3600) % 24, 2)
MM(t) == Digits((SecondOf(t) \div 60) % 60, 2)
SS(t) == Digits(SecondOf(t) % 60, 2)

DateCompact == T("20261030_")
DateLong == T("30 October 2026, ")
DateIso == T("2026-10-30T")
Colon == T(":")
Dot == T(".")
Underscore == T("_")
Slash == T("/")
DotMd == T(".md")
DotJson == T(".json")

\* datetime.now().strftime("%Y%m%d_%H%M%S")
Timestamp(t) == DateCompact \o HH(t) \o MM(t) \o SS(t)

\* datetime.now().strftime('%d %B %Y, %H:%M')
GeneratedLine(t) == DateLong \o HH(t) \o Colon \o MM(t)

\* datetime.now().isoformat(): the fraction is printed only when it is not zero
IsoFormat(t) ==
    DateIso \o HH(t) \o Colon \o MM(t) \o Colon \o SS(t)
        \o (IF MicrosecondOf(t) = 0 THEN << >> ELSE Dot \o Digits(MicrosecondOf(t), 6))

\* os.path.expanduser("~/Desktop/SEO Articles")
OutputDir == T("/root") \o T("/Desktop/SEO Articles")

\* os.path.join(output_dir, name), for a name that does not start with "/"
PathJoin(dir, name) == dir \o Slash \o name

KeyPrimaryKeyword == T("primary_keyword")
KeyKeywordsOutput == T("keywords_output")
KeyGeneratedAt == T("generated_at")
DefaultKeyword == T("article")
NotAvailable == T("N/A")

SpaceChar == Ord(" ")
UnderscoreChar == Ord("_")
SlashChar == Ord("/")
HyphenChar == Ord("-")

SafeKwNoTruncate(context) ==
    Replace(Replace(DictGet(context, KeyPrimaryKeyword, DefaultKeyword),
                    SpaceChar, UnderscoreChar),
            SlashChar, HyphenChar)

\* context.get("primary_keyword", "article").replace(" ", "_").replace("/", "-")[:30]
SafeKw(context) ==
    Prefix(Replace(Replace(DictGet(context, KeyPrimaryKeyword, DefaultKeyword),
                           SpaceChar, UnderscoreChar),
                   SlashChar, HyphenChar),
           KeywordLimit)

\* the literal parts of the f-string md
MdTemplate ==
    <<T("# SEO ARTICLE OUTPUT\n\n**Primary Keyword:** "),
      T("\n**Generated:** "),
      T("\n\n---\n\n## SEO META DATA\n\n**Title Tag:** "),
      T("\n\n**Meta Description:** "),
      T("\n\n**Keywords Used:** "),
      T("\n\n---\n\n## ARTICLE\n\n"),
      T("\n\n---\n\n## FREQUENTLY ASKED QUESTIONS\n\n"),
      T("\n\n---\n\n## KEYWORD RESEARCH NOTES\n\n"),
      T("\n\n---\n*Generated by DIAL Agents SEO Article Tool*\n")>>

\* the f-string md
Markdown(context, sections, t) ==
    MdTemplate[1] \o DictGet(context, KeyPrimaryKeyword, << >>)
    \o MdTemplate[2] \o GeneratedLine(t)
    \o MdTemplate[3] \o sections["title_tag"]
    \o MdTemplate[4] \o sections["meta_desc"]
    \o MdTemplate[5] \o sections["keywords"]
    \o MdTemplate[6] \o sections["article_copy"]
    \o MdTemplate[7] \o sections["faqs"]
    \o MdTemplate[8] \o DictGet(context, KeyKeywordsOutput, NotAvailable)
    \o MdTemplate[9]

SectionKey == [k \in SectionNames |-> T(k)]

\* the items of the sections dict
SectionItems(sections) ==
    [j \in 1 .. Len(SectionOrder) |-> <<SectionKey[SectionOrder[j]], sections[SectionOrder[j]]>>]

\* {"generated_at": ..., **context, **sections}
JsonData(context, sections, t) ==
    Update(Update(<< <<KeyGeneratedAt, IsoFormat(t)>> >>, context), SectionItems(sections))

HexDigit(n) == IF n < 10 THEN 48 + n ELSE 87 + n

\* \uXXXX, in lower-case hexadecimal
UEscape(n) ==
    <<92, 117, HexDigit(n \div 4096), HexDigit((n \div 256) % 16),
      HexDigit((n \div 16) % 16), HexDigit(n % 16)>>

\* json.encoder.encode_basestring (ensure_ascii=False) on one character: the
\* quote, the backslash and the control characters are escaped
EscapeCharUnicode(c) ==
    CASE c = 34 -> <<92, 34>>
      [] c = 92 -> <<92, 92>>
      [] c = 10 -> <<92, 110>>
      [] c = 13 -> <<92, 114>>
      [] c = 9 -> <<92, 116>>
      [] c = 12 -> <<92, 102>>
      [] c = 8 -> <<92, 98>>
      [] OTHER -> IF c < 32 THEN UEscape(c) ELSE <<c>>

RECURSIVE EscapeUnicode(_)
EscapeUnicode(s) ==
    IF Len(s) = 0 THEN << >>
    ELSE IF Len(s) = 1 THEN EscapeCharUnicode(s[1])
    ELSE LET h == Len(s) \div 2
         IN  EscapeUnicode(SubSeq(s, 1, h)) \o EscapeUnicode(SubSeq(s, h + 1, Len(s)))

\* the JSON string of a text, between its quotes
EncodeBasestring(s) == <<34>> \o EscapeUnicode(s) \o <<34>>

DumpOpen == <<T("{"), T("\n  ")>>
DumpClose == <<T("\n"), T("}")>>
ItemSeparator == T(",\n  ")
KeySeparator == T(": ")

RECURSIVE ItemChunks(_, _)
ItemChunks(d, first) ==
    IF d = << >> THEN << >>
    ELSE (IF first THEN << >> ELSE <<ItemSeparator>>)
            \o <<EncodeBasestring(d[1][1]), KeySeparator, EncodeBasestring(d[1][2])>>
            \o ItemChunks(Tail(d), FALSE)

\* the chunks json.dump(d, f, indent=2, ensure_ascii=False) hands to f.write, one
\* after the other, for a dict d of texts that is not empty
Chunks(d) == DumpOpen \o ItemChunks(d, TRUE) \o DumpClose

\* the size in bytes of the chunk of the text layer of a file (TextIOWrapper)
\* and of the buffer under it (BufferedWriter: the block size of the file system)
ChunkSize == 8192
BufferSize == 4096

\* a file just opened for writing: no write call made, nothing buffered
NoIo == [writes |-> << >>, buffer |-> << >>, pending |-> << >>, raised |-> FALSE]

\* BufferedWriter.write(data): data that fits is buffered; else the buffer is
\* written out, and data longer than the buffer is written by a call of its own
BufferedWrite(io, data) ==
    IF Len(data) <= BufferSize - Len(io.buffer) THEN [io EXCEPT !.buffer = @ \o data]
    ELSE [io EXCEPT
             !.writes = (IF io.buffer = << >> THEN @ ELSE Append(@, io.buffer))
                           \o (IF Len(data) > BufferSize THEN <<data>> ELSE << >>),
             !.buffer = IF Len(data) > BufferSize THEN << >> ELSE data]

\* the text layer hands its pending bytes to the buffer
WriteFlush(io) == [BufferedWrite(io, io.pending) EXCEPT !.pending = << >>]

\* the pending bytes once b has joined them, flushed when they fill the chunk
FlushFull(io) == IF Len(io.pending) >= ChunkSize THEN WriteFlush(io) ELSE io

\* the text layer takes the bytes b of a text: pending bytes that b would carry
\* beyond the chunk size are flushed first
TextWrite(io, b) ==
    IF Len(io.pending) + Len(b) > ChunkSize
    THEN FlushFull([WriteFlush(io) EXCEPT !.pending = b])
    ELSE FlushFull([io EXCEPT !.pending = @ \o b])

\* f.write(text): a text that cannot be encoded raises UnicodeEncodeError and
\* leaves the file as it is
Write(io, text) ==
    IF ~Encodable(text) THEN [io EXCEPT !.raised = TRUE] ELSE TextWrite(io, Encode(text))

\* f.write of the chunks from the j-th on, in turn, up to the first that raises
RECURSIVE WriteAll(_, _, _)
WriteAll(io, chunks, j) ==
    IF io.raised \/ j > Len(chunks) THEN io
    ELSE WriteAll(Write(io, chunks[j]), chunks, j + 1)

\* the file is closed: what is pending and buffered is written out
Close(io) ==
    LET flushed == WriteFlush(io)
    IN  IF flushed.buffer = << >> THEN flushed.writes ELSE Append(flushed.writes, flushed.buffer)

\* the byte blocks that the write calls on the descriptor carry, in order, from
\* the open to the end of the with block, when the chunks are written in turn
RawWrites(chunks) == Close(WriteAll(NoIo, chunks, 1))

\* the exception open(path, "w") raises for the path, "" when it raises none
OpenError(path) ==
    IF \E j \in 1 .. Len(path) : path[j] \in Surrogates \ EscapedBytes
    THEN "UnicodeEncodeError"
    ELSE IF \E j \in 1 .. Len(path) : path[j] = 0 THEN "ValueError"
    ELSE ""

\* open(path, "w"): the file of that name is created, or cut to length 0
OpenFile(fs, path) ==
    [p \in (DOMAIN fs) \cup {FsEncode(path)} |-> IF p = FsEncode(path) THEN << >> ELSE fs[p]]

Zeros(n) == [k \in 1 .. n |-> 0]

\* one write call on a descriptor that stands at offset pos: the bytes replace
\* what the file holds from there on; what it holds beyond them (written through
\* another descriptor since the open) stays, and a file that was cut below pos
\* since is filled with NUL bytes up to pos
WriteFile(fs, path, pos, bytes) ==
    LET old == fs[FsEncode(path)] IN
    [fs EXCEPT ![FsEncode(path)] =
        (IF Len(old) >= pos THEN SubSeq(old, 1, pos) ELSE old \o Zeros(pos - Len(old)))
            \o bytes \o SubSeq(old, pos + Len(bytes) + 1, Len(old))]

EmptyDict == << >>

RawOf(i) == Get(requests[i], "raw_article", << >>)
ContextOf(i) == Get(requests[i], "context", EmptyDict)

MdPath(i) == PathJoin(OutputDir, handlers[i].base \o DotMd)
JsonPath(i) == PathJoin(OutputDir, handlers[i].base \o DotJson)

\* the handler raises: Flask answers 500 and the call is over
Raise(i, name) == handlers' = [handlers EXCEPT ![i].pc = "failed", ![i].error = name]

\* POST /api/save is taken up by a thread of the server: the request is read, the
\* sections are extracted, the directory is made and the base name is built
Begin ==
    /\ Len(handlers) < Len(requests)
    /\ LET i == Len(handlers) + 1 IN
       \E sections \in {Sections(RawOf(i))} :
          handlers' = Append(handlers,
                             [pc |-> "named", sections |-> sections,
                              base |-> SafeKw(ContextOf(i)) \o Underscore \o Timestamp(clock),
                              md |-> << >>, json_data |-> << >>, pos |-> 0,
                              todo |-> << >>, response |-> << >>, error |-> ""])
    /\ UNCHANGED <<requests, files, clock, relayVars>>

\* md = f"""...""": the second reading of the clock
RenderMd ==
    /\ \E i \in 1 .. Len(handlers) :
          /\ handlers[i].pc = "named"
          /\ handlers' = [handlers EXCEPT
                             ![i].pc = "rendered",
                             ![i].md = Markdown(ContextOf(i), handlers[i].sections, clock)]
    /\ UNCHANGED <<requests, files, clock, relayVars>>

\* with open(md_path, "w", encoding="utf-8") as f
OpenMd ==
    /\ \E i \in 1 .. Len(handlers) :
          /\ handlers[i].pc = "rendered"
          /\ IF OpenError(MdPath(i)) # ""
             THEN /\ Raise(i, OpenError(MdPath(i)))
                  /\ UNCHANGED files
             ELSE /\ handlers' = [handlers EXCEPT ![i].pc = "md_open"]
                  /\ files' = OpenFile(files, MdPath(i))
    /\ UNCHANGED <<requests, clock, relayVars>>

\* f.write(md) and the end of the with block: the text is one chunk, which
\* reaches the file in one write call
WriteMd ==
    /\ \E i \in 1 .. Len(handlers) :
          /\ handlers[i].pc = "md_open"
          /\ IF ~Encodable(handlers[i].md)
             THEN /\ Raise(i, "UnicodeEncodeError")
                  /\ UNCHANGED files
             ELSE /\ handlers' = [handlers EXCEPT ![i].pc = "md_written"]
                  /\ \E blocks \in {RawWrites(<<handlers[i].md>>)} :
                        files' = WriteFile(files, MdPath(i), 0, blocks[1])
    /\ UNCHANGED <<requests, clock, relayVars>>

\* json_data = {...}: the third reading of the clock
BuildJson ==
    /\ \E i \in 1 .. Len(handlers) :
          /\ handlers[i].pc = "md_written"
          /\ handlers' = [handlers EXCEPT
                             ![i].pc = "built",
                             ![i].json_data = JsonData(ContextOf(i), handlers[i].sections, clock)]
    /\ UNCHANGED <<requests, files, clock, relayVars>>

\* with open(json_path, "w", encoding="utf-8") as f
OpenJson ==
    /\ \E i \in 1 .. Len(handlers) :
          /\ handlers[i].pc = "built"
          /\ handlers' = [handlers EXCEPT ![i].pc = "json_open"]
          /\ files' = OpenFile(files, JsonPath(i))
    /\ UNCHANGED <<requests, clock, relayVars>>

\* the locals of handler i after a write call of json.dump or of the end of its
\* with block that carried n bytes and leaves the blocks rest to write: with
\* nothing left the call is over, json.dump has raised or jsonify({...}) is
\* returned
AfterWrite(i, n, rest, chunks) ==
    IF rest # << >>
    THEN [handlers[i] EXCEPT !.pc = "dumping", !.pos = @ + n, !.todo = rest]
    ELSE IF \E j \in 1 .. Len(chunks) : ~Encodable(chunks[j])
    THEN [handlers[i] EXCEPT !.pc = "failed", !.error = "UnicodeEncodeError",
                             !.pos = @ + n, !.todo = << >>]
    ELSE [handlers[i] EXCEPT
             !.pc = "done", !.pos = @ + n, !.todo = << >>,
             !.response = <<[success |-> TRUE, md_path |-> MdPath(i),
                             json_path |-> JsonPath(i),
                             sections |-> handlers[i].sections]>>]

\* json.dump(json_data, f, indent=2, ensure_ascii=False) up to the first write
\* call on the descriptor; a record that stays below the chunk size is written
\* by that one call, at the end of the with block
DumpJson ==
    /\ \E i \in 1 .. Len(handlers) :
          /\ handlers[i].pc = "json_open"
          /\ \E chunks \in {Chunks(handlers[i].json_data)} :
             \E blocks \in {RawWrites(chunks)} :
                /\ files' = WriteFile(files, JsonPath(i), 0, blocks[1])
                /\ handlers' = [handlers EXCEPT
                                   ![i] = AfterWrite(i, Len(blocks[1]), Tail(blocks), chunks)]
    /\ UNCHANGED <<requests, clock, relayVars>>

\* the next write call of a record that did not fit the chunk of the text layer
FlushJson ==
    /\ \E i \in 1 .. Len(handlers) :
          /\ handlers[i].pc = "dumping"
          /\ \E block \in {Head(handlers[i].todo)} :
                /\ files' = WriteFile(files, JsonPath(i), handlers[i].pos, block)
                /\ handlers' = [handlers EXCEPT
                                   ![i] = AfterWrite(i, Len(block), Tail(handlers[i].todo),
                                                  Chunks(handlers[i].json_data))]
    /\ UNCHANGED <<requests, clock, relayVars>>

\* time passes
Tick ==
    /\ clock < MaxClock
    /\ clock' = clock + 1
    /\ UNCHANGED <<requests, handlers, files, relayVars>>

----------------------------------------------------------------------------
(* Streaming relay (the generate() generators of the four streaming routes) *)

\* json.encoder.encode_basestring_ascii (json.dumps, ensure_ascii=True) on one
\* character: only the characters " " to "~" stay, but for the quote and the
\* backslash; a character beyond U+FFFF becomes a surrogate pair
EscapeChar(c) ==
    CASE c = 34 -> <<92, 34>>
      [] c = 92 -> <<92, 92>>
      [] c = 10 -> <<92, 110>>
      [] c = 13 -> <<92, 114>>
      [] c = 9 -> <<92, 116>>
      [] c = 12 -> <<92, 102>>
      [] c = 8 -> <<92, 98>>
      [] OTHER ->
            IF c \in 32 .. 126 THEN <<c>>
            ELSE IF c < 65536 THEN UEscape(c)
            ELSE UEscape(55296 + (((c - 65536) \div 1024) % 1024))
                    \o UEscape(56320 + ((c - 65536) % 1024))

RECURSIVE JsonEscape(_)
JsonEscape(s) ==
    IF Len(s) = 0 THEN << >>
    ELSE IF Len(s) = 1 THEN EscapeChar(s[1])
    ELSE LET h == Len(s) \div 2
         IN  JsonEscape(SubSeq(s, 1, h)) \o JsonEscape(SubSeq(s, h + 1, Len(s)))

DumpsOpen == T("{\"text\": \"")
DumpsClose == T("\"}")
DataField == T("data: ")
EventEnd == T("\n\n")

\* json.dumps({'text': text})
JsonDumps(text) == DumpsOpen \o JsonEscape(text) \o DumpsClose

FrameNoEscape(text) == DataField \o DumpsOpen \o text \o DumpsClose \o EventEnd

\* f"data: {json.dumps({'text': text})}\n\n"
Frame(text) == DataField \o JsonDumps(text) \o EventEnd

DoneEvent == T("data: [DONE]\n\n")

Endpoints ==
    [keywords |-> [route |-> "/api/keywords", max_tokens |-> 2000, system |-> FALSE],
     brief |-> [route |-> "/api/brief", max_tokens |-> 1500, system |-> FALSE],
     article |-> [route |-> "/api/article", max_tokens |-> 4096, system |-> TRUE],
     refine |-> [route |-> "/api/refine", max_tokens |-> 4096, system |-> FALSE]]

\* the text deltas the upstream service may deliver: plain text, text with the
\* characters JSON escapes, the empty text, the text of the sentinel, control
\* characters with DEL and a Latin-1 letter, and an em dash, an emoji and a lone
\* surrogate.  (A delta is text decoded from JSON, in which a high surrogate
\* is never followed by a low one.)
Fragments ==
    {T("Best"), T(" \"running\" shoes\n"), T("a\\b\t"), << >>, T("[DONE]"),
     <<8, 127, 11, 0, 233, 13, 12>>, <<8212, 128512, 55296>>}

\* a streaming route returns Response(stream_with_context(generate())): the
\* generator exists and has not run yet
Respond(ep) ==
    /\ rpc = "idle"
    /\ rpc' = "created"
    /\ endpoint' = ep
    /\ UNCHANGED <<upstream, out, calls, saveVars>>

GenerateKeywords == Respond(Endpoints.keywords)
GenerateBrief == Respond(Endpoints.brief)
GenerateArticle == Respond(Endpoints.article)
RefineArticle == Respond(Endpoints.refine)

\* with client.messages.stream(...) as stream: the upstream call is opened
OpenStream ==
    /\ rpc = "created"
    /\ calls' = calls + 1
    /\ rpc' = "streaming"
    /\ UNCHANGED <<endpoint, upstream, out, saveVars>>

\* ... or opening it raises (network, auth, quota): the generator dies
OpenFails ==
    /\ rpc = "created"
    /\ calls' = calls + 1
    /\ rpc' = "failed"
    /\ UNCHANGED <<endpoint, upstream, out, saveVars>>

\* for text in stream.text_stream: yield the framed fragment
RelayFragment ==
    /\ rpc = "streaming"
    /\ Len(upstream) < MaxFragments
    /\ \E text \in Fragments :
          /\ upstream' = Append(upstream, text)
          /\ out' = Append(out, Frame(text))
    /\ UNCHANGED <<rpc, endpoint, calls, saveVars>>

\* text_stream is exhausted: the with block exits and the sentinel is yielded
UpstreamCloses ==
    /\ rpc = "streaming"
    /\ out' = Append(out, DoneEvent)
    /\ rpc' = "done"
    /\ UNCHANGED <<endpoint, upstream, calls, saveVars>>

UpstreamFailsThenDone ==
    /\ rpc = "streaming"
    /\ out' = Append(out, DoneEvent)
    /\ rpc' = "failed"
    /\ UNCHANGED <<endpoint, upstream, calls, saveVars>>

\* text_stream raises in mid-stream: the exception leaves the generator
UpstreamFails ==
    /\ rpc = "streaming"
    /\ rpc' = "failed"
    /\ UNCHANGED <<endpoint, upstream, out, calls, saveVars>>

\* the consumer goes away: the generator is closed where it stands
ClientDisconnects ==
    /\ rpc \in {"created", "streaming"}
    /\ rpc' = "closed"
    /\ UNCHANGED <<endpoint, upstream, out, calls, saveVars>>

----------------------------------------------------------------------------
(* Inputs of the save endpoint *)

Markers == {Canonical[i] : i \in 1 .. Len(Canonical)}

\* a marker that lost its closing dashes
Truncated(m) == SubSeq(m, 1, Len(m) - 3)

DeleteAt(toks, i) == SubSeq(toks, 1, i - 1) \o SubSeq(toks, i + 1, Len(toks))
InsertAt(toks, i, m) == SubSeq(toks, 1, i - 1) \o <<m>> \o SubSeq(toks, i, Len(toks))
TruncateAt(toks, i) == [toks EXCEPT ![i] = Truncated(toks[i])]

Edits(toks) ==
    {DeleteAt(toks, i) : i \in 1 .. Len(toks)}
        \cup {TruncateAt(toks, i) : i \in 1 .. Len(toks)}
        \cup {InsertAt(toks, i, m) : i \in 1 .. Len(toks) + 1, m \in Markers}

RECURSIVE Edited(_)
Edited(n) ==
    IF n = 0 THEN {Canonical}
    ELSE LET prev == Edited(n - 1) IN prev \cup UNION {Edits(toks) : toks \in prev}

RECURSIVE TokenSeqs(_)
TokenSeqs(n) ==
    IF n = 0 THEN {<< >>}
    ELSE LET prev == TokenSeqs(n - 1)
         IN  prev \cup {Append(toks, m) : toks \in prev, m \in Markers \cup {Truncated(Canonical[1])}}

\* The text around the markers: the gap before the g-th marker is fill[g],
\* cyclically.
\* the fillers of the scenario blob
FillScenario ==
    <<T(""), T("\nfoo, bar\n"), T("\nT\n"), T("\nD\n"), T("\nH\n"), T("\nBody\n"), T("\nQ/A\n"),
      T("")>>

\* prose before the first marker and after the last, text next to the markers
FillProse ==
    <<T("Here is the article:\n"), T(" k1, k2 "), T("Title\n"), T("\tDesc"), T("H1 "),
      T("# Body\n\nmore text"), T("Q1: why?\nA1: so."), T("\nthanks\n")>>

\* whitespace other than blank, tab and newline (vertical tab, file separator,
\* no-break space, em space, ideographic space, next line, ...), an em dash
\* and, in the gap after ---ARTICLETITLE---, a lone surrogate
FillRare ==
    <<T(""), <<11>> \o T("k1") \o <<28, 160>>, <<8195>> \o T("Title") \o <<12288, 133>>,
      <<31>> \o T("D ") \o <<8212>> \o T(" d") \o <<8232>>, <<10, 55296, 32>> \o T("H"),
      <<12>> \o T("Body") \o <<8239>>, <<5760>> \o T("Q") \o <<8287, 13>>, T("")>>

\* nothing between the markers
FillNone == <<T("")>>

\* whitespace only
FillBlank == <<T(" \n")>>

Fills == {FillScenario, FillProse, FillRare, FillNone, FillBlank}

\* an article copy as long as the chunk of the text layer of a file
LargeCopy == [k \in 1 .. ChunkSize |-> 97]
FillLarge == [FillScenario EXCEPT ![6] = <<10>> \o LargeCopy \o <<10>>]

RECURSIVE Render(_, _, _)
Render(toks, fill, g) ==
    LET gap == fill[((g - 1) % Len(fill)) + 1] IN
    IF toks = << >> THEN gap
    ELSE gap \o Head(toks) \o Render(Tail(toks), fill, g + 1)

\* the scenario blob with the long article copy
LargeBlob == Render(Canonical, FillLarge, 1)

\* the blobs that are saved: the expected layout after up to MaxEdits edits, up
\* to MaxTokens markers in any order, and the blob with the long article copy
Blobs ==
    {Render(toks, fill, 1) : toks \in Edited(MaxEdits), fill \in {FillScenario, FillRare}}
        \cup {Render(toks, fill, 1) : toks \in TokenSeqs(MaxTokens), fill \in Fills}
        \cup {LargeBlob}

ScenarioBlob ==
    T("---KEYWORDS---\nfoo, bar\n---TITLETAG---\nT\n---METADESC---\nD\n---ARTICLETITLE---\nH\n---ARTICLECOPY---\nBody\n---FAQS---\nQ/A\n---END---")

\* the name of a file as os.fsencode gives it for two texts: the letter e with
\* an acute accent, and the two surrogates that stand for the bytes of that letter
EAcute == <<233>>
EAcuteEscaped == <<56515, 56489>>

\* the pieces of a primary keyword: text, a NUL, a surrogate that a path cannot
\* hold and surrogates that it can (all low surrogates: text decoded from JSON
\* has no high surrogate followed by a low one)
KwParts ==
    {T("best running"), T(" shoes"), T("a/b"), T("what is seo?"), T(" "),
     T("the-complete_guide to marathon training"), T("x") \o <<0>>, <<56320>>, EAcuteEscaped}

RECURSIVE Keywords(_)
Keywords(n) ==
    IF n = 0 THEN {<< >>}
    ELSE LET prev == Keywords(n - 1) IN prev \cup {kw \o part : kw \in prev, part \in KwParts}

Contexts ==
    { << <<KeyPrimaryKeyword, T("best running shoes")>>, <<T("industry"), T("Retail")>>,
         <<KeyKeywordsOutput, T("LSI KEYWORDS TABLE")>> >>,
      << <<KeyPrimaryKeyword, T("best_running_shoes")>>, <<T("faqs"), T("caller faqs")>> >>,
      << <<KeyPrimaryKeyword, EAcute>>, <<KeyGeneratedAt, T("yesterday")>>,
         <<T("tone"), T("expert")>> >>,
      << <<KeyPrimaryKeyword, EAcuteEscaped>> >>,
      << <<T("tone"), T("caf") \o <<233>>>>, <<T("industry"), <<55296>>>> >> }

SaveRequests ==
    {[raw_article |-> ScenarioBlob, context |-> c] : c \in Contexts}
        \cup {[raw_article |-> ScenarioBlob]}

RECURSIVE RequestSeqs(_)
RequestSeqs(n) ==
    IF n = 0 THEN {<< >>}
    ELSE LET prev == RequestSeqs(n - 1)
         IN  prev \cup {Append(rs, r) : rs \in prev, r \in SaveRequests}

\* a save of the blob with the long article copy, alone and beside a save of the
\* scenario blob under the same (default) primary keyword
LargeSeqs ==
    {<<[raw_article |-> LargeBlob]>>,
     <<[raw_article |-> LargeBlob], [raw_article |-> ScenarioBlob]>>,
     <<[raw_article |-> ScenarioBlob], [raw_article |-> LargeBlob]>>}

----------------------------------------------------------------------------
(* Specifications *)

\* the output directory holds no file
NoFiles == [p \in {} |-> << >>]

RelayIdle ==
    /\ rpc = "idle"
    /\ endpoint = [route |-> "none", max_tokens |-> 0, system |-> FALSE]
    /\ upstream = << >>
    /\ out = << >>
    /\ calls = 0

SaveIdle ==
    /\ handlers = << >>
    /\ files = NoFiles
    /\ clock = 0

\* the client sends up to MaxSaves save requests; app.run serves each request in
\* a thread of its own, so the handlers advance in any interleaving.  The saves
\* of the long blob are made while the clock stands at its last tick.
Init ==
    /\ \/ requests \in RequestSeqs(MaxSaves) /\ clock = 0
       \/ requests \in LargeSeqs /\ clock = MaxClock
    /\ handlers = << >>
    /\ files = NoFiles
    /\ RelayIdle

Next ==
    \/ Begin
    \/ RenderMd
    \/ OpenMd
    \/ WriteMd
    \/ BuildJson
    \/ OpenJson
    \/ DumpJson
    \/ FlushJson
    \/ Tick

Spec == Init /\ [][Next]_vars

\* one save of a blob drawn from Blobs; extraction does not read the clock, which
\* stands at its last tick
InitExtract ==
    /\ requests \in {<<[raw_article |-> raw, context |-> << <<KeyPrimaryKeyword, T("seo")>> >>]>> :
                        raw \in Blobs}
    /\ handlers = << >>
    /\ files = NoFiles
    /\ clock = MaxClock
    /\ RelayIdle

NextExtract ==
    \/ Begin
    \/ RenderMd
    \/ OpenMd
    \/ WriteMd
    \/ BuildJson
    \/ OpenJson
    \/ DumpJson
    \/ FlushJson

SpecExtract == InitExtract /\ [][NextExtract]_vars

\* one save under a primary keyword drawn from Keywords, and one of the blob with
\* the long article copy
InitFilename ==
    /\ requests \in {<<[raw_article |-> ScenarioBlob, context |-> << <<KeyPrimaryKeyword, kw>> >>]>> :
                        kw \in Keywords(MaxKwParts)}
                    \cup {<<[raw_article |-> LargeBlob,
                             context |-> << <<KeyPrimaryKeyword, T("seo")>> >>]>>}
    /\ SaveIdle
    /\ RelayIdle

SpecFilename == InitFilename /\ [][Next]_vars

\* one streaming request
InitRelay ==
    /\ requests = << >>
    /\ SaveIdle
    /\ RelayIdle

NextRelay ==
    \/ GenerateKeywords
    \/ GenerateBrief
    \/ GenerateArticle
    \/ RefineArticle
    \/ OpenStream
    \/ OpenFails
    \/ RelayFragment
    \/ UpstreamCloses
    \/ UpstreamFails
    \/ ClientDisconnects

SpecRelay == InitRelay /\ [][NextRelay]_vars

----------------------------------------------------------------------------
(* Vocabulary of the properties, stated on the texts and not through Index *)

Started == 1 .. Len(handlers)
Done(i) == handlers[i].pc = "done"
Failed(i) == handlers[i].pc = "failed"

\* the handler has built its sections dict and gone no further
Extracted(i) == handlers[i].pc = "named"
KeywordOf(i) == DictGet(ContextOf(i), KeyPrimaryKeyword, DefaultKeyword)

\* the offsets (0-based) at which sub occurs in s
Offsets(s, sub) ==
    {p \in 0 .. Len(s) : p + Len(sub) <= Len(s) /\ \A j \in 1 .. Len(sub) : s[p + j] = sub[j]}

Least(S) == CHOOSE p \in S : \A q \in S : p <= q

\* the text from offset a up to offset b, nothing when the two overlap
Between(s, a, b) == IF a >= b THEN << >> ELSE SubSeq(s, a + 1, b)

\* r is t without its leading and trailing whitespace
IsTrimOf(r, t) ==
    \E a \in 0 .. Len(t) : \E b \in a .. Len(t) :
        /\ Len(r) = b - a
        /\ \A j \in 1 .. a : t[j] \in Whitespace
        /\ \A j \in b + 1 .. Len(t) : t[j] \in Whitespace
        /\ r = Between(t, a, b)
        /\ r # << >> => (r[1] \notin Whitespace /\ r[Len(r)] \notin Whitespace)

\* every marker of ms occurs exactly once in raw, in the order of ms
OnceInOrder(raw, ms) ==
    /\ \A j \in 1 .. Len(ms) : Cardinality(Offsets(raw, ms[j])) = 1
    /\ \A j \in 1 .. Len(ms) - 1 : Least(Offsets(raw, ms[j])) < Least(Offsets(raw, ms[j + 1]))

WellFormed(raw) == OnceInOrder(raw, Canonical)

\* the text between the only start marker of section k and its only end marker
MarkedText(raw, k) ==
    Between(raw, Least(Offsets(raw, StartMarker[k])) + Len(StartMarker[k]),
            Least(Offsets(raw, EndMarker[k])))

\* the whitespace characters other than blank, tab, newline, return and form feed
RareWhitespace == Whitespace \ {9, 10, 12, 13, 32}

\* The claims about the sections are stated where the sections dict has just been
\* built; the dict is not assigned again, and the response returns it (C2).

\* C1: when the blob holds each of the seven markers once and in order, every
\* section is the text between its start marker and its end marker, without the
\* leading and trailing whitespace.
C1_WellFormedExtraction ==
    \A i \in Started :
        (Extracted(i) /\ WellFormed(RawOf(i))) =>
            \A k \in SectionNames :
                IsTrimOf(handlers[i].sections[k], MarkedText(RawOf(i), k))

\* a well-formed blob was extracted, every section has text, whitespace was removed
\* around every section, and around one of them whitespace that is not ASCII
C1_Witness ==
    \E i \in Started :
        /\ WellFormed(RawOf(i))
        /\ \A k \in SectionNames :
              /\ handlers[i].sections[k] # << >>
              /\ Len(handlers[i].sections[k]) < Len(MarkedText(RawOf(i), k))
        /\ \E k \in SectionNames :
              /\ MarkedText(RawOf(i), k)[1] \in RareWhitespace
              /\ handlers[i].sections[k][1] \notin Whitespace

\* C2: a section whose start marker or end marker occurs nowhere in the blob is
\* the empty string, extraction raises nothing (a save that fails fails later, on
\* text that cannot be encoded), and the sections have all six keys.
C2_MissingMarkerEmpty ==
    \A i \in Started :
        /\ DOMAIN handlers[i].sections = SectionNames
        /\ Extracted(i) =>
              \A k \in SectionNames :
                  (Offsets(RawOf(i), StartMarker[k]) = {} \/ Offsets(RawOf(i), EndMarker[k]) = {})
                      => handlers[i].sections[k] = << >>
        /\ Failed(i) =>
              \/ \E j \in 1 .. Len(RawOf(i)) : RawOf(i)[j] \in Surrogates
              \/ \E j \in 1 .. Len(KeywordOf(i)) : KeywordOf(i)[j] \in Surrogates \cup {0}
        /\ Done(i) =>
              /\ handlers[i].response[1].success
              /\ handlers[i].response[1].sections = handlers[i].sections

\* a blob was saved in which a start marker is followed by text and its end marker
\* is missing, and the save succeeded
C2_Witness ==
    \E i \in Started : \E k \in SectionNames :
        /\ Done(i)
        /\ Offsets(RawOf(i), StartMarker[k]) # {}
        /\ Offsets(RawOf(i), EndMarker[k]) = {}
        /\ Strip(Between(RawOf(i), Least(Offsets(RawOf(i), StartMarker[k])) + Len(StartMarker[k]),
                         Len(RawOf(i)))) # << >>
        /\ handlers[i].sections[k] = << >>
        /\ handlers[i].response[1].sections[k] = << >>

\* the blob is well-formed but for the ---FAQS--- marker, which it lacks
LacksFaqsOnly(raw) ==
    /\ OnceInOrder(raw, DeleteAt(Canonical, 6))
    /\ Offsets(raw, Canonical[6]) = {}

\* the well-formed blobs that raw is with a ---FAQS--- marker put back somewhere
\* between the ---ARTICLECOPY--- marker and the ---END--- marker
WithFaqs(raw) ==
    LET from == Least(Offsets(raw, Canonical[5])) + Len(Canonical[5])
        upto == Least(Offsets(raw, Canonical[7]))
        put(p) == SubSeq(raw, 1, p) \o Canonical[6] \o SubSeq(raw, p + 1, Len(raw))
    IN  {raw2 \in {put(p) : p \in from .. upto} : WellFormed(raw2)}

\* C3 as stated: without the ---FAQS--- marker faqs is empty and the five earlier
\* sections have the values they have with the marker present.
C3_EarlierSectionsKept ==
    \A i \in Started :
        (Extracted(i) /\ LacksFaqsOnly(RawOf(i))) =>
            /\ handlers[i].sections["faqs"] = << >>
            /\ \A raw2 \in WithFaqs(RawOf(i)) :
                  \A k \in SectionNames \ {"faqs"} :
                      handlers[i].sections[k] = Sections(raw2)[k]

\* C3 (amended): without the ---FAQS--- marker faqs and article_copy are empty, and
\* keywords, title_tag, meta_desc and article_title have the values they have with
\* the marker present.
C3_FourEarlierSectionsKept ==
    \A i \in Started :
        (Extracted(i) /\ LacksFaqsOnly(RawOf(i))) =>
            /\ handlers[i].sections["faqs"] = << >>
            /\ handlers[i].sections["article_copy"] = << >>
            /\ \A raw2 \in WithFaqs(RawOf(i)) :
                  \A k \in SectionNames \ {"faqs", "article_copy"} :
                      handlers[i].sections[k] = Sections(raw2)[k]

\* a blob lacking only ---FAQS--- was extracted, whose article body is not empty
\* when the marker is present
C3_Witness ==
    \E i \in Started :
        /\ LacksFaqsOnly(RawOf(i))
        /\ handlers[i].sections["article_title"] # << >>
        /\ \E raw2 \in WithFaqs(RawOf(i)) : Sections(raw2)["article_copy"] # << >>

\* C10: each section depends on the blob alone: on the first occurrence of its
\* start marker and on the first occurrence of its end marker at or after the end
\* of that start marker; with no such occurrence the section is empty.
C10_FirstOccurrences ==
    \A i \in {h \in Started : Extracted(h)} : \A k \in SectionNames :
        LET raw == RawOf(i)
            starts == Offsets(raw, StartMarker[k])
            s == Least(starts) + Len(StartMarker[k])
            ends == {q \in Offsets(raw, EndMarker[k]) : q >= s}
        IN  IF starts = {} \/ ends = {}
            THEN handlers[i].sections[k] = << >>
            ELSE IsTrimOf(handlers[i].sections[k], Between(raw, s, Least(ends)))

\* a blob was extracted in which the end marker of a section occurs, but only
\* before the section's start marker
C10_Witness ==
    \E i \in Started : \E k \in SectionNames :
        /\ Offsets(RawOf(i), StartMarker[k]) # {}
        /\ Offsets(RawOf(i), EndMarker[k]) # {}
        /\ \A q \in Offsets(RawOf(i), EndMarker[k]) : q < Least(Offsets(RawOf(i), StartMarker[k]))
        /\ handlers[i].sections[k] = << >>

----------------------------------------------------------------------------
(* File names *)

TimestampLen == Len("YYYYMMDD_HHMMSS")

HasPrefix(s, pre) == Len(pre) <= Len(s) /\ SubSeq(s, 1, Len(pre)) = pre
HasSuffix(s, suf) == Len(suf) <= Len(s) /\ SubSeq(s, Len(s) - Len(suf) + 1, Len(s)) = suf

\* the part of a base name before _<timestamp>
KeywordPart(base) == SubSeq(base, 1, Len(base) - TimestampLen - 1)

Alphanumeric == (48 .. 57) \cup (65 .. 90) \cup (97 .. 122)

BestRunningShoes == T("best running shoes")
BestRunningShoesFile == T("best_running_shoes")
FirstStamp == T("_20261030_095959")

\* C7: the keyword part of the file name has no space and no "/", has "_" where
\* the keyword has a space, is at most 30 characters long, and the .md and .json
\* files of a save share their base name.
C7_FilenameSanitized ==
    /\ \A i \in Started :
          LET base == handlers[i].base
              part == KeywordPart(base)
          IN  /\ \E t \in 0 .. clock : HasSuffix(base, Underscore \o Timestamp(t))
              /\ Len(part) <= 30
              /\ Len(part) = Min(30, Len(KeywordOf(i)))
              /\ \A j \in 1 .. Len(part) :
                    /\ part[j] \notin {SpaceChar, SlashChar}
                    /\ KeywordOf(i)[j] = SpaceChar => part[j] = UnderscoreChar
              /\ KeywordOf(i) = BestRunningShoes => part = BestRunningShoesFile
              /\ Done(i) =>
                    /\ handlers[i].response[1].md_path = OutputDir \o Slash \o base \o DotMd
                    /\ handlers[i].response[1].json_path = OutputDir \o Slash \o base \o DotJson
                    /\ {FsEncode(handlers[i].response[1].md_path),
                        FsEncode(handlers[i].response[1].json_path)} \subseteq DOMAIN files
    /\ \A p \in DOMAIN files :
          \E i \in Started : \E ext \in {DotMd, DotJson} :
              p = FsEncode(OutputDir \o Slash \o handlers[i].base \o ext)

\* "best running shoes" was saved as best_running_shoes_<timestamp>.md and .json
C7_Witness ==
    \E i \in Started :
        /\ KeywordOf(i) = BestRunningShoes
        /\ Done(i)
        /\ handlers[i].response[1].md_path
              = OutputDir \o Slash \o BestRunningShoesFile \o FirstStamp \o DotMd
        /\ handlers[i].response[1].json_path
              = OutputDir \o Slash \o BestRunningShoesFile \o FirstStamp \o DotJson
        /\ DOMAIN files = {FsEncode(handlers[i].response[1].md_path),
                           FsEncode(handlers[i].response[1].json_path)}

\* C8 as stated: the keyword part of the file name holds only alphanumeric
\* characters, "_" and "-".
C8_OnlySafeCharacters ==
    \A i \in Started :
        LET part == KeywordPart(handlers[i].base)
        IN  \A j \in 1 .. Len(part) : part[j] \in Alphanumeric \cup {UnderscoreChar, HyphenChar}

\* C6 as stated: two saves never write to the same .md path or the same .json path.
C6_UniquePaths ==
    \A i \in Started : \A j \in Started :
        (i # j /\ Done(i) /\ Done(j)) =>
            /\ handlers[i].response[1].md_path # handlers[j].response[1].md_path
            /\ handlers[i].response[1].json_path # handlers[j].response[1].json_path

----------------------------------------------------------------------------
(* The structured record *)

RECURSIVE Concat(_)
Concat(parts) == IF parts = << >> THEN << >> ELSE parts[1] \o Concat(Tail(parts))

\* C9 as stated: once a save is over, its .json file holds one flat mapping, which
\* has every context field with its supplied value, generated_at with a time of
\* the save, and the six sections as extracted.
C9_RecordHoldsAllFields ==
    \A i \in Started :
        (Done(i) \/ Failed(i)) =>
            /\ FsEncode(JsonPath(i)) \in DOMAIN files
            /\ files[FsEncode(JsonPath(i))] = Encode(Concat(Chunks(handlers[i].json_data)))
            /\ \A j \in 1 .. Len(ContextOf(i)) :
                  DictGet(handlers[i].json_data, ContextOf(i)[j][1], << >>) = ContextOf(i)[j][2]
            /\ \E t \in 0 .. clock :
                  DictGet(handlers[i].json_data, KeyGeneratedAt, << >>) = IsoFormat(t)
            /\ \A k \in SectionNames :
                  DictGet(handlers[i].json_data, SectionKey[k], << >>) = handlers[i].sections[k]

----------------------------------------------------------------------------
(* The event stream *)

FramePrefix == T("data: {\"text\": \"")
FrameSuffix == T("\"}\n\n")

Invalid == 0 - 1

\* the character a backslash and the letter c stand for in a JSON string
Unescaped(c) ==
    CASE c = 34 -> 34
      [] c = 92 -> 92
      [] c = 47 -> 47
      [] c = 98 -> 8
      [] c = 102 -> 12
      [] c = 110 -> 10
      [] c = 114 -> 13
      [] c = 116 -> 9
      [] OTHER -> Invalid

HexValue(c) ==
    IF c \in 48 .. 57 THEN c - 48
    ELSE IF c \in 97 .. 102 THEN c - 87
    ELSE IF c \in 65 .. 70 THEN c - 55
    ELSE Invalid

\* the number the four hexadecimal digits at b[j..j+3] denote
Hex4(b, j) ==
    IF j + 3 > Len(b) \/ \E d \in 0 .. 3 : HexValue(b[j + d]) = Invalid THEN Invalid
    ELSE (HexValue(b[j]) * 4096) + (HexValue(b[j + 1]) * 256) + (HexValue(b[j + 2]) * 16)
            + HexValue(b[j + 3])

\* the text a JSON string body stands for, read left to right as a JSON parser
\* reads it: \uXXXX is one character, and a high surrogate followed by a low one
\* is the character beyond U+FFFF they encode
RECURSIVE JsonUnescape(_)
JsonUnescape(b) ==
    IF b = << >> THEN << >>
    ELSE IF b[1] = 34 \/ b[1] < 32 THEN <<Invalid>>
    ELSE IF b[1] # 92 THEN <<b[1]>> \o JsonUnescape(SubSeq(b, 2, Len(b)))
    ELSE IF Len(b) = 1 THEN <<Invalid>>
    ELSE IF b[2] # 117 THEN <<Unescaped(b[2])>> \o JsonUnescape(SubSeq(b, 3, Len(b)))
    ELSE LET hi == Hex4(b, 3)
             lo == IF Len(b) >= 12 /\ b[7] = 92 /\ b[8] = 117 THEN Hex4(b, 9) ELSE Invalid
         IN  IF hi = Invalid THEN <<Invalid>>
             ELSE IF hi \in 55296 .. 56319 /\ lo \in 56320 .. 57343
                  THEN <<65536 + ((hi - 55296) * 1024) + (lo - 56320)>>
                          \o JsonUnescape(SubSeq(b, 13, Len(b)))
             ELSE <<hi>> \o JsonUnescape(SubSeq(b, 7, Len(b)))

\* an event is one data: line holding a JSON object with the single key text, in
\* ASCII, and nothing in it ends the event early
IsFrame(ev) ==
    /\ HasPrefix(ev, FramePrefix)
    /\ HasSuffix(ev, FrameSuffix)
    /\ Len(ev) >= Len(FramePrefix) + Len(FrameSuffix)
    /\ \A j \in 1 .. Len(ev) - 2 : ev[j] \in 32 .. 126

\* the fragment a consumer reads out of an event
Decode(ev) ==
    JsonUnescape(SubSeq(ev, Len(FramePrefix) + 1, Len(ev) - Len(FrameSuffix)))

\* C4: when the upstream stream has delivered f1..fn and closed, the response is n
\* events carrying f1..fn in that order, followed by the one [DONE] sentinel.
C4_RelayInOrder ==
    rpc = "done" =>
        /\ Len(out) = Len(upstream) + 1
        /\ \A i \in 1 .. Len(upstream) :
              /\ IsFrame(out[i])
              /\ Decode(out[i]) = upstream[i]
              /\ out[i] # DoneEvent
        /\ out[Len(out)] = DoneEvent

QuotedFragment == T(" \"running\" shoes\n")

\* the refine stream delivered MaxFragments fragments, one of them with characters
\* that JSON escapes by a letter, one with characters beyond ASCII, and closed
C4_Witness ==
    /\ rpc = "done"
    /\ endpoint.route = "/api/refine"
    /\ Len(upstream) = MaxFragments
    /\ \E i \in 1 .. Len(upstream) : upstream[i] = QuotedFragment
    /\ \E i \in 1 .. Len(upstream) : \E j \in 1 .. Len(upstream[i]) : upstream[i][j] > 65535
    /\ upstream[1] # upstream[2]

\* C5: when the upstream call has failed, the fragments received before are what
\* the response has emitted, in order; no [DONE] sentinel is emitted unless the
\* stream closed normally; and a request opens at most one upstream call, exactly
\* one once it has failed.
C5_FailureEndsStream ==
    /\ calls <= 1
    /\ (\E i \in 1 .. Len(out) : out[i] = DoneEvent) => rpc = "done"
    /\ rpc = "failed" =>
          /\ calls = 1
          /\ Len(out) = Len(upstream)
          /\ \A i \in 1 .. Len(upstream) : IsFrame(out[i]) /\ Decode(out[i]) = upstream[i]

\* the upstream call failed after two fragments
C5_Witness ==
    /\ rpc = "failed"
    /\ Len(upstream) = 2
    /\ Len(out) = 2
    /\ calls = 1

====
